---- MODULE Spec2Model ----
(***************************************************************************)
(* Discrete-time marketplace simulation (patientpartner): the daily loop   *)
(* of simulation/base.py driving SupplySimulator, DemandGenerator,         *)
(* MatchingEngine and ComplaintHandler.                                    *)
(*                                                                         *)
(* Numbers: ratings are kept in thousandths (5.0 = 5000), the conversion   *)
(* modifier in ten-thousandths (1.0 = 10000).  Every random draw of the    *)
(* code is a nondeterministic choice.                                      *)
(***************************************************************************)
EXTENDS Integers, Sequences, FiniteSets, TLC

----------------------------------------------------------------------------
(* Bounds of the model *)

\* config.total_days: number of simulated days (days 0 .. TotalDays-1)
TotalDays == 5
\* config.initial_escorts
InitialEscorts == 1
\* at most this many brand-new requesters per day
MaxNewPerDay == 1
\* config.training_days
TrainingDays == 1
\* stands for the 30-day attrition cadence of supply.py:57
ChurnPeriod == 2
\* stands for the repeat cycle (45/90/180 days) of demand.py:19-23
RepurchaseCycle == 2
\* stands for _max_completed_records (3000) of matching.py:48
MaxCompletedRecords == 2
\* config.weekly_recruit
WeeklyRecruit == 2
\* escorts in the roster of the matching pass that tests the attempt limit:
\* one more than MAX_MATCH_ATTEMPTS (config.initial_escorts is 15 by default)
ManyEscorts == 11
MaxReferralRecords == 1
MaxCandidates == 3

----------------------------------------------------------------------------
(* Program constants *)

MAX_MATCH_ATTEMPTS == 10
\* the recruitment period of daily_update (day % 7)
RecruitPeriod == 7
MinRating == 4000
DesignateRating == 4800
PoolRating == 4000
InitialRating == 5000
AtRiskDays == 30
MaxDistanceKm == 15
ModifierFloor == 5000
ModifierOne == 10000
ComplaintWindow == 30
\* the two ends of random.randint(1, 7) in simulate_referral
ConversionDelays == {1, 7}

\* the satisfaction draw max(1.0, min(5.0, normal(mean, std))): three
\* representative scores, 1.0, 4.5 and 5.0
Scores == {1000, 4500, 5000}

\* the configurations of config.covered_hospitals: one hospital of
\* RESTRICTED_HOSPITALS, or one outside it
HospitalConfigs == {{"xiehe"}, {"community"}}
RESTRICTED_HOSPITALS == {"xiehe"}

\* positions on a line, 10 km apart.  The users live at 0; in the layout
\* "near" the first escort lives there too, every other escort 20 km away.
UserLocs == {0}
EscortLoc(layout, e) == IF layout = "near" /\ e = 1 THEN 0 ELSE 2

\* how the engine is built (with or without a GeoMatcher, matching.py:40) and
\* where the escorts live
EngineSetups == {[geo |-> TRUE,  layout |-> "near"],
                 [geo |-> TRUE,  layout |-> "far"],
                 [geo |-> FALSE, layout |-> "near"]}

\* complaint types with their resolution_hours / 24
ComplaintTypes == {"hospital_conflict"}

\* every type of COMPLAINT_TYPE_CONFIG
AllComplaintTypes ==
    {"medical_advice_error", "hospital_conflict", "service_quality", "others"}

\* config["resolution_hours"] / 24 of COMPLAINT_TYPE_CONFIG
RequiredDays(t) ==
    CASE t = "hospital_conflict" -> 1
      [] t = "service_quality" -> 2
      [] t = "others" -> 3
      [] OTHER -> 7

----------------------------------------------------------------------------
(* Sequence helpers *)

Range(s) == {s[i] : i \in 1..Len(s)}

Max2(a, b) == IF a >= b THEN a ELSE b
Min2(a, b) == IF a <= b THEN a ELSE b
Abs(a) == IF a >= 0 THEN a ELSE 0 - a

\* s without the elements of set S, order kept
Without(s, S) == SelectSeq(s, LAMBDA x : x \notin S)

\* the ascending sequence of the elements of a finite set of integers
RECURSIVE SortedSeq(_)
SortedSeq(S) ==
    IF S = {} THEN <<>>
    ELSE LET m == CHOOSE x \in S : \A y \in S : x <= y
         IN <<m>> \o SortedSeq(S \ {m})

\* last n elements of s (python s[-n:])
LastN(s, n) == IF Len(s) <= n THEN s ELSE SubSeq(s, Len(s) - n + 1, Len(s))

----------------------------------------------------------------------------
VARIABLES
    config_valid,       \* whether SimulationConfig.validate() accepts the configuration
    hash_order,         \* list(GeoMatcher.urban_districts) in each of two processes
    stream,             \* the draws fixed by config.random_seed
    runs,               \* two runs of one configuration and seed, one per process
    referral_system,    \* ReferralSystem: user_nps, referral_records, and how often each order was handled
    call,               \* the call of find_nearest_escort or classify_user_nps under examination, with its result
    day,                \* loop variable of BaseSimulation.run
    pc,                 \* position inside _simulate_day
    idx,                \* loop index inside _match_orders / _process_serving_orders
    escorts,            \* SupplySimulator.escorts: id -> Escort
    users,              \* every User ever created: id -> User
    orders,             \* every Order ever created: id -> Order
    repurchase_pool,    \* DemandGenerator.repurchase_pool (keys, insertion order)
    demand_modifier,    \* DemandGenerator.conversion_rate_modifier
    new_orders,         \* the day's list returned by generate_daily_orders
    available_escorts,  \* the list of step 3, as mutated by _match_orders
    waiting_queue,      \* MatchingEngine.waiting_queue
    serving_orders,     \* MatchingEngine.serving_orders
    completed_orders,   \* MatchingEngine.completed_orders
    failed_orders,      \* MatchingEngine.failed_orders
    daily_order_count,  \* MatchingEngine.daily_order_count
    geo_matcher,        \* MatchingEngine.geo_matcher is not None
    covered_hospitals,  \* config.covered_hospitals
    complaints,         \* ComplaintHandler.complaints
    daily_orders_window,\* ComplaintHandler._daily_orders_window
    complaint_rate,     \* ComplaintHandler.current_complaint_rate as <<num, den>>
    complaint_modifier  \* ComplaintHandler.conversion_rate_modifier

\* the state of the two-process comparison; one simulation never touches it
replay == <<hash_order, stream, runs>>

\* the state of one simulation
simulation == <<day, pc, idx, escorts, users, orders, repurchase_pool,
                demand_modifier, new_orders, available_escorts, waiting_queue,
                serving_orders, completed_orders, failed_orders, daily_order_count,
                geo_matcher, covered_hospitals, complaints, daily_orders_window,
                complaint_rate, complaint_modifier>>

vars == <<config_valid, hash_order, stream, runs, referral_system, call,
          day, pc, idx, escorts, users, orders, repurchase_pool,
          demand_modifier, new_orders, available_escorts, waiting_queue,
          serving_orders, completed_orders, failed_orders, daily_order_count,
          geo_matcher, covered_hospitals, complaints, daily_orders_window, complaint_rate,
          complaint_modifier>>

EscortIds == 1..InitialEscorts

\* Escort(status=TRAINING) with the dataclass defaults of entities.py
NewEscort(loc, covered) ==
    [status |-> "training", rating |-> InitialRating, total_orders |-> 0,
     has_certification |-> FALSE, loc |-> loc,
     specialized_hospitals |-> covered,
     join_day |-> 0]    \* the simulated day of onboarding (the code keeps no such field)

\* no function is examined on its own in a simulation run
NoCall == [fn |-> "none"]

\* ReferralSystem(): no classification, no referral record; handled counts,
\* per order, the calls of classify_user_nps / simulate_referral made for it
NewReferralSystem ==
    [user_nps |-> <<>>, referral_records |-> <<>>, handled |-> <<>>]

\* BaseSimulation.__init__ and Simulation._init_modules: the modules as
\* constructed, whatever the configuration holds
InitModules ==
    /\ referral_system = NewReferralSystem
    /\ call = NoCall
    /\ day = 0
    /\ pc = "supply"
    /\ idx = 1
    /\ covered_hospitals \in HospitalConfigs
    /\ \E setup \in EngineSetups :
          /\ geo_matcher = setup.geo
          /\ escorts = [e \in EscortIds |->
                           NewEscort(EscortLoc(setup.layout, e), covered_hospitals)]
    /\ users = <<>>
    /\ orders = <<>>
    /\ repurchase_pool = <<>>
    /\ demand_modifier = ModifierOne
    /\ new_orders = <<>>
    /\ available_escorts = <<>>
    /\ waiting_queue = <<>>
    /\ serving_orders = <<>>
    /\ completed_orders = <<>>
    /\ failed_orders = <<>>
    /\ daily_order_count = [e \in EscortIds |-> 0]
    /\ complaints = <<>>
    /\ daily_orders_window = <<>>
    /\ complaint_rate = <<0, 1>>
    /\ complaint_modifier = ModifierOne

\* one simulation in one process: nothing is compared
NoReplay ==
    /\ hash_order = <<>>
    /\ stream = <<>>
    /\ runs = <<>>

\* a simulation constructed from a configuration that validate() accepts
Init ==
    /\ InitModules
    /\ config_valid = TRUE
    /\ NoReplay

\* a simulation constructed from any SimulationConfig: the dataclass
\* constructor and from_yaml accept every value of every field
InitAnyConfig ==
    /\ InitModules
    /\ config_valid \in BOOLEAN
    /\ NoReplay

----------------------------------------------------------------------------
(* SupplySimulator *)

\* _process_training_completion: every TRAINING escort, once day >= training_days,
\* becomes AVAILABLE (the pass draw, escorts in passed) or CHURNED
_process_training_completion(es, d, passed) ==
    [e \in DOMAIN es |->
        IF es[e].status = "training" /\ d >= TrainingDays
        THEN [es[e] EXCEPT !.status = IF e \in passed THEN "available" ELSE "churned"]
        ELSE es[e]]

\* update_churn_risk: (income_factor + order_factor) / 2 is positive while the
\* escort has fewer than 50 orders, so the attrition draw can go either way
ChurnRiskPositive(e) == e.total_orders < 50

\* _process_churn: AVAILABLE (or REST) escorts drawn in churned become CHURNED
_process_churn(es, churned) ==
    [e \in DOMAIN es |->
        IF es[e].status = "available" /\ ChurnRiskPositive(es[e]) /\ e \in churned
        THEN [es[e] EXCEPT !.status = "churned"]
        ELSE es[e]]

\* get_available_escorts returning every escort that has left training
get_available_escorts_Trained(es) ==
    SelectSeq(SortedSeq(DOMAIN es), LAMBDA e : es[e].status # "training")

\* get_available_escorts: the AVAILABLE escorts, in roster order
get_available_escorts(es) ==
    SelectSeq(SortedSeq(DOMAIN es), LAMBDA e : es[e].status = "available")

\* the number of escorts _recruit_new_escorts takes on:
\* int(weekly_recruit * max(1 - 0.3 * week / 52, 0.4)), in 520ths
actual_recruit(d) ==
    (WeeklyRecruit * Max2(520 - 3 * (d \div RecruitPeriod), 208)) \div 520

\* _recruit_new_escorts: the recruits join the roster in TRAINING; the location
\* draw is represented by the position 0
_recruit_new_escorts(es, d, covered) ==
    es \o [i \in 1..actual_recruit(d) |->
              [NewEscort(0, covered) EXCEPT !.join_day = d]]

\* the roster after the recruitment step of daily_update
Recruited(es, d, covered) ==
    IF d % RecruitPeriod = 0 /\ d > 0
    THEN _recruit_new_escorts(es, d, covered)
    ELSE es

\* step 1, daily_update(day): recruitment (no day of a run of TotalDays days
\* is a recruitment day), then training completion, then attrition.  A recruit has no entry in daily_order_count yet; the engine
\* reads it with .get(id, 0).
UpdateSupply ==
    /\ pc = "supply"
    /\ LET roster == Recruited(escorts, day, covered_hospitals)
       IN /\ \E passed \in SUBSET {e \in DOMAIN roster : roster[e].status = "training"
                                                         /\ day >= TrainingDays} :
               LET trained == _process_training_completion(roster, day, passed)
               IN IF day % ChurnPeriod = 0 /\ day > 0
                  THEN \E churned \in SUBSET {e \in DOMAIN trained :
                                                 trained[e].status = "available"} :
                          escorts' = _process_churn(trained, churned)
                  ELSE escorts' = trained
          /\ daily_order_count' = [e \in DOMAIN roster |->
                                      IF e \in DOMAIN daily_order_count
                                      THEN daily_order_count[e] ELSE 0]
    /\ pc' = "demand"
    /\ UNCHANGED <<config_valid, replay, referral_system, call, day, idx, users, orders, repurchase_pool,
                   demand_modifier, new_orders, available_escorts, waiting_queue,
                   serving_orders, completed_orders, failed_orders,
                   geo_matcher, covered_hospitals, complaints,
                   daily_orders_window, complaint_rate, complaint_modifier>>

----------------------------------------------------------------------------
(* DemandGenerator *)

\* User(...) of _create_user; 0 stands for None
NewUser(hospital, loc) ==
    [target_hospital |-> hospital, loc |-> loc, is_repurchase |-> FALSE,
     lifecycle_state |-> "active", days_since_last_order |-> 0,
     designated_escort_id |-> 0, last_escort_id |-> 0,
     history_escort_ids |-> <<>>]

\* Order(user=..) of _create_order; 0 stands for None
NewOrder(u, d) ==
    [user |-> u, status |-> "pending", escort |-> 0, match_type |-> "normal",
     rating |-> 0, is_success |-> FALSE, cancel_reason |-> "none",
     rejected_escorts |-> <<>>, match_attempts |-> 0, created_day |-> d]

\* _update_user_lifecycle_states: every pooled user ages one day; the churn draw
\* (users in churned) marks it churned, otherwise more than 30 idle days mark
\* it at_risk
_update_user_lifecycle_states(us, pool, churned) ==
    [u \in DOMAIN us |->
        IF u \in Range(pool)
        THEN LET aged == us[u].days_since_last_order + 1
             IN [us[u] EXCEPT
                    !.days_since_last_order = aged,
                    !.lifecycle_state =
                        IF u \in churned THEN "churned"
                        ELSE IF aged > AtRiskDays THEN "at_risk"
                        ELSE us[u].lifecycle_state]
        ELSE us[u]]

\* _remove_churned_users leaving the pool as it is
_remove_churned_users_Keep(us, pool) == pool

\* _remove_churned_users
_remove_churned_users(us, pool) ==
    SelectSeq(pool, LAMBDA u : us[u].lifecycle_state # "churned")

\* the pooled users whose repeat cycle has elapsed (demand.py:163)
RepurchaseEligible(us, pool) ==
    SelectSeq(pool, LAMBDA u : us[u].days_since_last_order >= RepurchaseCycle)

\* the effect of a successful repeat draw on the user (demand.py:167-170)
MarkRepurchase(us, drawn) ==
    [u \in DOMAIN us |->
        IF u \in drawn
        THEN [us[u] EXCEPT !.is_repurchase = TRUE,
                           !.days_since_last_order = 0,
                           !.lifecycle_state = "active"]
        ELSE us[u]]

\* add_to_repurchase_pool, on the pool keys (a dict keeps a key's position)
add_to_repurchase_pool(pool, u) ==
    IF u \in Range(pool) THEN pool ELSE Append(pool, u)

\* step 2, generate_daily_orders(day)
GenerateDemand ==
    /\ pc = "demand"
    /\ \E churned \in SUBSET Range(repurchase_pool) :
       \E n \in 0..MaxNewPerDay :
       \E hosp \in [1..n -> covered_hospitals] :
       \E loc \in [1..n -> UserLocs] :
         LET aged     == _update_user_lifecycle_states(users, repurchase_pool, churned)
             pool1    == _remove_churned_users(aged, repurchase_pool)
             eligible == RepurchaseEligible(aged, pool1)
             fresh    == [i \in 1..n |-> NewUser(hosp[i], loc[i])]
             freshOrd == [i \in 1..n |-> NewOrder(Len(users) + i, day)]
         IN \E drawn \in SUBSET Range(eligible) :
              /\ LET repUsers == SelectSeq(eligible, LAMBDA u : u \in drawn)
                     repOrd   == [i \in 1..Len(repUsers) |-> NewOrder(repUsers[i], day)]
                 IN /\ users' = MarkRepurchase(aged, drawn) \o fresh
                    /\ orders' = orders \o freshOrd \o repOrd
                    /\ new_orders' = [i \in 1..(n + Len(repUsers)) |-> Len(orders) + i]
              /\ repurchase_pool' = pool1
    /\ pc' = "fetch"
    /\ UNCHANGED <<config_valid, replay, referral_system, call, day, idx, escorts, demand_modifier, available_escorts,
                   waiting_queue, serving_orders, completed_orders,
                   failed_orders, daily_order_count, geo_matcher,
                   covered_hospitals, complaints, daily_orders_window,
                   complaint_rate, complaint_modifier>>

\* step 3, get_available_escorts()
FetchAvailable ==
    /\ pc = "fetch"
    /\ available_escorts' = get_available_escorts(escorts)
    /\ pc' = "process"
    /\ UNCHANGED <<config_valid, replay, referral_system, call, day, idx, escorts, users, orders, repurchase_pool,
                   demand_modifier, new_orders, waiting_queue, serving_orders,
                   completed_orders, failed_orders, daily_order_count,
                   geo_matcher, covered_hospitals, complaints,
                   daily_orders_window, complaint_rate, complaint_modifier>>

----------------------------------------------------------------------------
(* Escort methods called by the engine *)

\* Escort.update_rating: exponential smoothing, 90% old rating + 10% new score
update_rating(rating, score) == (9 * rating + score) \div 10

\* Escort.calculate_acceptance_willingness compared with random.random():
\* the outcomes of the willingness draw (TRUE = accepts)
calculate_acceptance_willingness == {TRUE, FALSE}

----------------------------------------------------------------------------
(* GeoMatcher *)

\* _haversine_distance, on the line of positions
Distance(a, b) == 10 * Abs(a - b)

\* the first escort of the non-empty sequence s nearest to userLoc
NearestOf(es, userLoc, s) ==
    LET dist(e) == Distance(userLoc, es[e].loc)
        i == CHOOSE i \in 1..Len(s) :
               /\ \A j \in 1..Len(s) : dist(s[i]) <= dist(s[j])
               /\ \A j \in 1..(i - 1) : dist(s[j]) > dist(s[i])
    IN s[i]

\* max(s, key=lambda e: e.rating): the first escort of the non-empty
\* sequence s with the highest rating
HighestRated(es, s) ==
    LET i == CHOOSE i \in 1..Len(s) :
               /\ \A j \in 1..Len(s) : es[s[i]].rating >= es[s[j]].rating
               /\ \A j \in 1..(i - 1) : es[s[j]].rating < es[s[i]].rating
    IN s[i]

\* find_nearest_escort without its second loop: no escort when no candidate
\* lies within max_distance_km
find_nearest_escort_Filtered(es, userLoc, candidates, max_distance_km) ==
    LET dist(e) == Distance(userLoc, es[e].loc)
        near    == SelectSeq(candidates, LAMBDA e : dist(e) <= max_distance_km)
    IN IF near = <<>> THEN [escort |-> 0, distance_km |-> 0]
       ELSE LET b == NearestOf(es, userLoc, near)
            IN [escort |-> b, distance_km |-> dist(b)]

\* find_nearest_escort: the nearest candidate within max_distance_km, else the
\* nearest candidate of all; escort 0 when there is no candidate
find_nearest_escort(es, userLoc, candidates, max_distance_km) ==
    LET dist(e) == Distance(userLoc, es[e].loc)
        near    == SelectSeq(candidates, LAMBDA e : dist(e) <= max_distance_km)
    IN IF candidates = <<>> THEN [escort |-> 0, distance_km |-> 0]
       ELSE IF near # <<>>
            THEN LET b == NearestOf(es, userLoc, near)
                 IN [escort |-> b, distance_km |-> dist(b)]
            ELSE LET b == NearestOf(es, userLoc, candidates)
                 IN [escort |-> b, distance_km |-> dist(b)]

----------------------------------------------------------------------------
(* MatchingEngine *)

\* _get_daily_order_limit without its two lowest tiers
_get_daily_order_limit_Flat(rating) == IF rating >= 4900 THEN 4 ELSE 3

\* _get_daily_order_limit
_get_daily_order_limit(rating) ==
    IF rating >= 4900 THEN 4
    ELSE IF rating >= 4700 THEN 3
    ELSE IF rating >= 4500 THEN 3
    ELSE IF rating >= 4300 THEN 2
    ELSE 1

\* _is_escort_suitable
_is_escort_suitable(es, count, e, hospital) ==
    /\ es[e].rating >= MinRating
    /\ count[e] < _get_daily_order_limit(es[e].rating)
    /\ es[e].status = "available"
    /\ (hospital \in RESTRICTED_HOSPITALS => es[e].has_certification)

\* the candidate filter without its rating floor
Candidates_NoFloor(es, count, avail) ==
    SelectSeq(avail, LAMBDA e : count[e] < _get_daily_order_limit(es[e].rating))

\* the candidate filter of _find_best_escort (matching.py:148-152)
Candidates(es, count, avail) ==
    SelectSeq(avail, LAMBDA e : /\ count[e] < _get_daily_order_limit(es[e].rating)
                                /\ es[e].rating >= MinRating)

\* _normal_match: [escort, cancel_reason]; "keep" leaves cancel_reason as it is
_normal_match(es, geo, user, candidates) ==
    LET result == find_nearest_escort(es, user.loc, candidates, MaxDistanceKm)
        specialized == SelectSeq(candidates,
                          LAMBDA e : user.target_hospital \in es[e].specialized_hospitals)
    IN IF geo /\ candidates # <<>> /\ result.escort # 0
       THEN IF result.distance_km > MaxDistanceKm
            THEN [escort |-> 0, cancel_reason |-> "no_nearby_escort"]
            ELSE [escort |-> result.escort, cancel_reason |-> "keep"]
       ELSE IF specialized # <<>>
            THEN [escort |-> HighestRated(es, specialized), cancel_reason |-> "keep"]
            ELSE [escort |-> HighestRated(es, candidates), cancel_reason |-> "keep"]

\* _find_best_escort for order o with user u; willing is the set of candidates
\* whose willingness draw succeeds.  Result: the order as updated, escort 0
\* when no escort is returned.
_find_best_escort(es, count, geo, avail, o, u, willing) ==
    LET cands    == Candidates(es, count, avail)
        asked    == SelectSeq(cands, LAMBDA e : e \notin Range(o.rejected_escorts))
        refused  == SelectSeq(asked, LAMBDA e : e \notin willing)
        accepted == SelectSeq(asked, LAMBDA e : e \in willing)
        o1       == [o EXCEPT !.rejected_escorts = o.rejected_escorts \o refused,
                              !.match_attempts = o.match_attempts + Len(refused)]
        normal   == _normal_match(es, geo, u, accepted)
    IN IF avail = <<>> \/ cands = <<>>
       THEN [o EXCEPT !.cancel_reason = "escorts_full"]
       ELSE IF accepted = <<>>
       THEN IF Len(o1.rejected_escorts) < Len(avail)
            THEN [o1 EXCEPT !.cancel_reason = "wait_other_escorts"]
            ELSE [o1 EXCEPT !.cancel_reason = "escorts_full"]
       ELSE IF /\ u.designated_escort_id # 0
               /\ u.designated_escort_id \in Range(accepted)
               /\ _is_escort_suitable(es, count, u.designated_escort_id, u.target_hospital)
       THEN [o1 EXCEPT !.escort = u.designated_escort_id, !.match_type = "designated"]
       ELSE IF /\ u.last_escort_id # 0
               /\ u.last_escort_id \in Range(accepted)
               /\ _is_escort_suitable(es, count, u.last_escort_id, u.target_hospital)
       THEN [o1 EXCEPT !.escort = u.last_escort_id, !.match_type = "history"]
       ELSE [o1 EXCEPT !.escort = normal.escort, !.match_type = "normal",
                       !.cancel_reason = IF normal.cancel_reason = "keep"
                                         THEN o1.cancel_reason
                                         ELSE normal.cancel_reason]

\* add_history_escort designating the escort whatever the rating
add_history_escort_AnyRating(u, escort_id, rating) ==
    [u EXCEPT
        !.history_escort_ids = IF escort_id \in Range(u.history_escort_ids)
                               THEN u.history_escort_ids
                               ELSE Append(u.history_escort_ids, escort_id),
        !.last_escort_id = escort_id,
        !.designated_escort_id = escort_id]

\* add_history_escort without the designation
add_history_escort_NeverDesignate(u, escort_id, rating) ==
    [u EXCEPT
        !.history_escort_ids = IF escort_id \in Range(u.history_escort_ids)
                               THEN u.history_escort_ids
                               ELSE Append(u.history_escort_ids, escort_id),
        !.last_escort_id = escort_id]

\* User.add_history_escort
add_history_escort(u, escort_id, rating) ==
    [u EXCEPT
        !.history_escort_ids = IF escort_id \in Range(u.history_escort_ids)
                               THEN u.history_escort_ids
                               ELSE Append(u.history_escort_ids, escort_id),
        !.last_escort_id = escort_id,
        !.designated_escort_id = IF rating >= DesignateRating
                                 THEN escort_id
                                 ELSE u.designated_escort_id]

\* a ledger that records every complaint twice
generate_complaint_Twice(cs, kind, o, d) ==
    IF kind = "none" THEN cs
    ELSE cs \o << [complaint_type |-> kind, status |-> "pending", created_day |-> d],
                  [complaint_type |-> kind, status |-> "pending", created_day |-> d] >>

\* ComplaintHandler.generate_complaint: the 30% draw and the type draw are the
\* choice of kind, "none" when no complaint is filed
generate_complaint(cs, kind, o, d) ==
    IF kind = "none" THEN cs
    ELSE Append(cs, [complaint_type |-> kind, status |-> "pending",
                     created_day |-> d])

ComplaintDraws == {"none"} \cup ComplaintTypes

\* step 4 begins: process_orders extends the waiting queue (matching.py:68)
BeginProcess ==
    /\ pc = "process"
    /\ waiting_queue' = waiting_queue \o new_orders
    /\ idx' = 1
    /\ pc' = "match"
    /\ UNCHANGED <<config_valid, replay, referral_system, call, day, escorts, users, orders, repurchase_pool, demand_modifier,
                   new_orders, available_escorts, serving_orders,
                   completed_orders, failed_orders, daily_order_count,
                   geo_matcher, covered_hospitals, complaints,
                   daily_orders_window, complaint_rate, complaint_modifier>>

StartService_CountsOrder(es, e) ==
    [es EXCEPT ![e].status = "serving", ![e].total_orders = @ + 1]

\* the start of service in _match_orders (matching.py:101-104): the engine
\* writes the matched escort's status
StartService(es, e) ==
    [es EXCEPT ![e].status = "serving"]

\* one iteration of the loop of _match_orders (matching.py:84-121)
MatchOrder ==
    /\ pc = "match"
    /\ idx <= Len(waiting_queue)
    /\ LET o == waiting_queue[idx]
           u == users[orders[o].user]
           asked == {e \in Range(Candidates(escorts, daily_order_count, available_escorts)) :
                        e \notin Range(orders[o].rejected_escorts)}
       IN IF orders[o].match_attempts >= MAX_MATCH_ATTEMPTS
          THEN /\ orders' = [orders EXCEPT ![o].cancel_reason = "max_attempts"]
               /\ UNCHANGED <<escorts, daily_order_count, serving_orders,
                              available_escorts>>
          ELSE \E draw \in [asked -> calculate_acceptance_willingness] :
                 LET willing == {e \in asked : draw[e]}
                     found == _find_best_escort(escorts, daily_order_count, geo_matcher,
                                                available_escorts, orders[o], u, willing)
                     e == found.escort
                 IN IF e # 0
                    THEN /\ orders' = [orders EXCEPT ![o] = [found EXCEPT !.status = "serving"]]
                         /\ escorts' = StartService(escorts, e)
                         /\ daily_order_count' = [daily_order_count EXCEPT ![e] = @ + 1]
                         /\ serving_orders' = Append(serving_orders, o)
                         /\ available_escorts' =
                               IF daily_order_count[e] + 1 >= _get_daily_order_limit(escorts[e].rating)
                               THEN Without(available_escorts, {e})
                               ELSE available_escorts
                    ELSE /\ orders' = [orders EXCEPT ![o] = found]
                         /\ UNCHANGED <<escorts, daily_order_count, serving_orders,
                                        available_escorts>>
    /\ idx' = idx + 1
    /\ UNCHANGED <<config_valid, replay, referral_system, call, day, pc, users, repurchase_pool, demand_modifier, new_orders,
                   waiting_queue, completed_orders, failed_orders, geo_matcher,
                   covered_hospitals, complaints, daily_orders_window,
                   complaint_rate, complaint_modifier>>

\* the end of _match_orders (matching.py:123-132): matched orders leave the
\* waiting queue, orders over the attempt limit are failed
MatchEnd ==
    /\ pc = "match"
    /\ idx > Len(waiting_queue)
    /\ LET matched == {o \in Range(waiting_queue) : orders[o].status = "serving"}
           failed  == SelectSeq(waiting_queue,
                         LAMBDA o : /\ orders[o].status = "pending"
                                    /\ orders[o].cancel_reason = "max_attempts")
       IN /\ waiting_queue' = Without(waiting_queue, matched \cup Range(failed))
          /\ orders' = [o \in DOMAIN orders |->
                           IF o \in Range(failed)
                           THEN [orders[o] EXCEPT !.status = "failed"]
                           ELSE orders[o]]
          /\ failed_orders' = failed_orders \o failed
    /\ idx' = 1
    /\ pc' = "serve"
    /\ UNCHANGED <<config_valid, replay, referral_system, call, day, escorts, users, repurchase_pool, demand_modifier,
                   new_orders, available_escorts, serving_orders,
                   completed_orders, daily_order_count, geo_matcher,
                   covered_hospitals, complaints, daily_orders_window,
                   complaint_rate, complaint_modifier>>

\* one iteration of the loop of _process_serving_orders (matching.py:281-345)
ServeOrder ==
    /\ pc = "serve"
    /\ idx <= Len(serving_orders)
    /\ LET o == serving_orders[idx]
           e == orders[o].escort
           u == orders[o].user
       IN \/ \E score \in Scores :
               /\ orders' = [orders EXCEPT ![o].status = "completed",
                                           ![o].is_success = TRUE,
                                           ![o].rating = score]
               /\ escorts' = [escorts EXCEPT
                                 ![e].total_orders = @ + 1,
                                 ![e].rating = update_rating(@, score),
                                 ![e].status = "available"]
               /\ users' = [users EXCEPT
                               ![u] = [add_history_escort(@, e, score) EXCEPT
                                          !.days_since_last_order = 0,
                                          !.lifecycle_state = "active"]]
               /\ completed_orders' = LastN(Append(completed_orders, o), MaxCompletedRecords)
               /\ UNCHANGED <<failed_orders, complaints>>
          \/ \E kind \in ComplaintDraws :
               /\ orders' = [orders EXCEPT ![o].status = "failed",
                                           ![o].is_success = FALSE,
                                           ![o].cancel_reason = "service_problem"]
               /\ escorts' = [escorts EXCEPT ![e].status = "available"]
               /\ complaints' = generate_complaint(complaints, kind, o, day)
               /\ failed_orders' = Append(failed_orders, o)
               /\ UNCHANGED <<users, completed_orders>>
    /\ idx' = idx + 1
    /\ UNCHANGED <<config_valid, replay, referral_system, call, day, pc, repurchase_pool, demand_modifier, new_orders,
                   available_escorts, waiting_queue, serving_orders,
                   daily_order_count, geo_matcher, covered_hospitals,
                   daily_orders_window, complaint_rate, complaint_modifier>>

\* the end of _process_serving_orders (matching.py:347-349)
ServeEnd ==
    /\ pc = "serve"
    /\ idx > Len(serving_orders)
    /\ serving_orders' = <<>>
    /\ idx' = 1
    /\ pc' = "timeout"
    /\ UNCHANGED <<config_valid, replay, referral_system, call, day, escorts, users, orders, repurchase_pool, demand_modifier,
                   new_orders, available_escorts, waiting_queue,
                   completed_orders, failed_orders, daily_order_count,
                   geo_matcher, covered_hospitals, complaints,
                   daily_orders_window, complaint_rate, complaint_modifier>>

\* timed-out orders that are never offered to the ledger
FileAll_Drop(cs, queue, kinds, d) == cs

\* the complaints filed for the orders of queue, in order
RECURSIVE FileAll(_, _, _, _)
FileAll(cs, queue, kinds, d) ==
    IF queue = <<>> THEN cs
    ELSE FileAll(generate_complaint(cs, Head(kinds), Head(queue), d),
                 Tail(queue), Tail(kinds), d)

\* the timeout reason written over the reason of the match attempt
TimeoutReason_Overwrite(reason) == "timeout"

\* the reason kept by a timed-out order (matching.py:358)
TimeoutReason(reason) == IF reason = "none" THEN "timeout" ELSE reason

\* the waiting queue left as it is
ClearedQueue_Keep(queue) == queue

\* self.waiting_queue.clear() (matching.py:372)
ClearedQueue(queue) == <<>>

\* _process_timeout_orders
TimeoutOrders ==
    /\ pc = "timeout"
    /\ orders' = [o \in DOMAIN orders |->
                     IF o \in Range(waiting_queue)
                     THEN [orders[o] EXCEPT
                              !.status = "failed",
                              !.is_success = FALSE,
                              !.cancel_reason = TimeoutReason(@)]
                     ELSE orders[o]]
    /\ \E kinds \in [1..Len(waiting_queue) -> ComplaintDraws] :
          complaints' = FileAll(complaints, waiting_queue, kinds, day)
    /\ failed_orders' = failed_orders \o waiting_queue
    /\ waiting_queue' = ClearedQueue(waiting_queue)
    /\ pc' = "hook"
    /\ UNCHANGED <<config_valid, replay, referral_system, call, day, idx, escorts, users, repurchase_pool, demand_modifier,
                   new_orders, available_escorts, serving_orders,
                   completed_orders, daily_order_count, geo_matcher,
                   covered_hospitals, daily_orders_window, complaint_rate,
                   complaint_modifier>>

----------------------------------------------------------------------------
(* ComplaintHandler *)

\* a ledger that settles every in-progress complaint without waiting for its
\* resolution window
AgeComplaints_NoWindow(cs, current_day, resolved) ==
    [i \in DOMAIN cs |->
        IF cs[i].status = "pending" THEN [cs[i] EXCEPT !.status = "in_progress"]
        ELSE IF cs[i].status = "in_progress"
        THEN [cs[i] EXCEPT !.status = IF i \in resolved THEN "resolved" ELSE "escalated"]
        ELSE cs[i]]

\* the statuses after the loop of process_daily_complaints; resolved is the set
\* of due complaints whose 95% draw succeeds
AgeComplaints(cs, current_day, resolved) ==
    [i \in DOMAIN cs |->
        IF cs[i].status = "pending" THEN [cs[i] EXCEPT !.status = "in_progress"]
        ELSE IF /\ cs[i].status = "in_progress"
                /\ current_day - cs[i].created_day >= RequiredDays(cs[i].complaint_type)
        THEN [cs[i] EXCEPT !.status = IF i \in resolved THEN "resolved" ELSE "escalated"]
        ELSE cs[i]]

\* the complaints that are due for the resolution draw
DueComplaints(cs, current_day) ==
    {i \in DOMAIN cs : /\ cs[i].status = "in_progress"
                       /\ current_day - cs[i].created_day >= RequiredDays(cs[i].complaint_type)}

RECURSIVE Sum(_)
Sum(s) == IF s = <<>> THEN 0 ELSE Head(s) + Sum(Tail(s))

\* the modifier with the sign of the impact reversed
ConversionModifier_Rising(num, den) ==
    Max2(ModifierFloor, ModifierOne + ((4500 * num) \div den))

\* max(0.5, 1.0 + COMPLAINT_CONVERSION_IMPACT * rate * 100) for rate = num/den
ConversionModifier(num, den) ==
    Max2(ModifierFloor, ModifierOne - ((4500 * num) \div den))

\* the window after _update_complaint_rate appended today's volume
SlideWindow(window, today_orders) ==
    LastN(Append(window, today_orders), ComplaintWindow)

\* the complaints counted as recent (complaint_handler.py:208-211)
RecentComplaints(cs, current_day) ==
    Cardinality({i \in DOMAIN cs : current_day - cs[i].created_day <= 30})

\* a setter that stores half of what the ledger hands over
set_conversion_rate_modifier_Halved(modifier) ==
    Max2(ModifierFloor, Min2(ModifierOne, modifier \div 2))

\* DemandGenerator.set_conversion_rate_modifier
set_conversion_rate_modifier(modifier) ==
    Max2(ModifierFloor, Min2(ModifierOne, modifier))

----------------------------------------------------------------------------
(* Steps 5 to 8 of _simulate_day *)

\* the hook step going on to step 7, past the pool maintenance
HandleEvents_SkipPool ==
    /\ pc = "hook"
    /\ pc' = "metrics"
    /\ UNCHANGED <<config_valid, replay, referral_system, call, day, idx, escorts, users, orders, repurchase_pool,
                   demand_modifier, new_orders, available_escorts, waiting_queue,
                   serving_orders, completed_orders, failed_orders,
                   daily_order_count, geo_matcher, covered_hospitals, complaints,
                   daily_orders_window, complaint_rate, complaint_modifier>>

\* step 5, _handle_llm_events: the hook of simulation/base.py does nothing
HandleEvents ==
    /\ pc = "hook"
    /\ pc' = "pool"
    /\ UNCHANGED <<config_valid, replay, referral_system, call, day, idx, escorts, users, orders, repurchase_pool,
                   demand_modifier, new_orders, available_escorts, waiting_queue,
                   serving_orders, completed_orders, failed_orders,
                   daily_order_count, geo_matcher, covered_hospitals, complaints,
                   daily_orders_window, complaint_rate, complaint_modifier>>

\* the orders of completed_orders that put their user back into the pool
Retained(os, completed) ==
    SelectSeq(completed, LAMBDA o : os[o].is_success /\ os[o].rating >= PoolRating)

RECURSIVE AddAll(_, _)
AddAll(pool, us) ==
    IF us = <<>> THEN pool ELSE AddAll(add_to_repurchase_pool(pool, Head(us)), Tail(us))

\* ReferralSystem.NPS_BY_SEGMENT, in thousandths
NPS_BY_SEGMENT ==
    [elderly_self |-> [promoter |-> 120, passive |-> 450, detractor |-> 430],
     children_purchase |-> [promoter |-> 370, passive |-> 360, detractor |-> 270]]

\* classify_user_nps: the segment's distribution is looked up and not used;
\* the category follows from the ten-point score alone
classify_user_nps(rating, is_child_purchase) ==
    LET segment == IF is_child_purchase THEN "children_purchase" ELSE "elderly_self"
        nps_dist == NPS_BY_SEGMENT[segment]
        score_10 == rating * 2
    IN IF score_10 >= 9000 THEN "promoter"
       ELSE IF score_10 >= 7000 THEN "passive"
       ELSE "detractor"

\* uuid of _create_user, and f"referred_{user_id[:8]}_{day}" of simulate_referral
user_id(u) == <<"user", u>>
referred_id(u, d) == <<"referred", u, d>>

\* the draws of simulate_referral: no referral, a referral that does not
\* convert, a referral that converts after random.randint(1, 7) days; at most
\* max_records referrals are drawn in a run
ReferralDraws(rs, max_records) ==
    IF Len(rs.referral_records) < max_records
    THEN {[referred |-> FALSE, converted |-> FALSE, delay |-> 0],
          [referred |-> TRUE, converted |-> FALSE, delay |-> 0]}
         \cup {[referred |-> TRUE, converted |-> TRUE, delay |-> k] : k \in ConversionDelays}
    ELSE {[referred |-> FALSE, converted |-> FALSE, delay |-> 0]}

\* simulate_referral(user_id, day) under one draw; -1 stands for None
simulate_referral(rs, u, d, draw) ==
    IF u \notin DOMAIN rs.user_nps \/ rs.user_nps[u] # "promoter" \/ ~draw.referred
    THEN rs
    ELSE [rs EXCEPT !.referral_records =
             Append(@, [referrer_user_id |-> user_id(u),
                        referred_user_id |-> referred_id(u, d),
                        referral_day |-> d,
                        converted |-> draw.converted,
                        conversion_day |-> IF draw.converted THEN d + draw.delay ELSE -1])]

\* the two ReferralSystem calls made for one order of completed_orders
HandleOrder(rs, os, o, d, is_child_purchase, draw) ==
    LET u == os[o].user
        classified == [rs EXCEPT
            !.user_nps = [v \in DOMAIN rs.user_nps \cup {u} |->
                             IF v = u THEN classify_user_nps(os[o].rating, is_child_purchase)
                             ELSE rs.user_nps[v]],
            !.handled = [x \in DOMAIN rs.handled \cup {o} |->
                             IF x \in DOMAIN rs.handled
                             THEN rs.handled[x] + (IF x = o THEN 1 ELSE 0)
                             ELSE 1]]
    IN simulate_referral(classified, u, d, draw)

\* the ledgers the loop over completed_orders can leave behind
RECURSIVE Ledgers(_, _, _, _, _)
Ledgers(rs, os, completed, d, max_records) ==
    IF completed = <<>> THEN {rs}
    ELSE LET o == Head(completed)
             next == IF os[o].rating # 0
                     THEN {HandleOrder(rs, os, o, d, c, draw) :
                               c \in BOOLEAN, draw \in ReferralDraws(rs, max_records)}
                     ELSE {rs}
         IN UNION {Ledgers(n, os, Tail(completed), d, max_records) : n \in next}

\* _update_repurchase_pool with at most max_records referrals drawn in the run
_update_repurchase_pool(max_records) ==
    /\ pc = "pool"
    /\ LET kept == Retained(orders, completed_orders)
           keptUsers == [i \in 1..Len(kept) |-> orders[kept[i]].user]
       IN /\ repurchase_pool' = AddAll(repurchase_pool, keptUsers)
          /\ users' = [u \in DOMAIN users |->
                          IF u \in Range(keptUsers)
                          THEN [users[u] EXCEPT !.days_since_last_order = 0,
                                                !.lifecycle_state = "active"]
                          ELSE users[u]]
    /\ referral_system' \in Ledgers(referral_system, orders, completed_orders, day, max_records)
    /\ pc' = "metrics"
    /\ UNCHANGED <<config_valid, replay, call, day, idx, escorts, orders, demand_modifier, new_orders,
                   available_escorts, waiting_queue, serving_orders,
                   completed_orders, failed_orders, daily_order_count,
                   geo_matcher, covered_hospitals, complaints,
                   daily_orders_window, complaint_rate, complaint_modifier>>

\* step 6, _update_repurchase_pool; every referral draw of the five-day run
\* falls above referral_prob
UpdateRepurchasePool == _update_repurchase_pool(0)

\* step 7, _record_daily_metrics: process_daily_complaints, then the modifier
\* is written into the DemandGenerator
RecordDailyMetrics ==
    /\ pc = "metrics"
    /\ \E resolved \in SUBSET DueComplaints(complaints, day) :
          complaints' = AgeComplaints(complaints, day, resolved)
    /\ LET window == SlideWindow(daily_orders_window, Len(new_orders))
           recent_orders == Sum(window)
           recent_complaints == RecentComplaints(complaints, day)
       IN /\ daily_orders_window' = window
          /\ IF recent_orders <= 0
             THEN UNCHANGED <<complaint_rate, complaint_modifier>>
             ELSE /\ complaint_rate' = <<recent_complaints, recent_orders>>
                  /\ complaint_modifier' = ConversionModifier(recent_complaints, recent_orders)
    /\ demand_modifier' = set_conversion_rate_modifier(complaint_modifier')
    /\ pc' = "reset"
    /\ UNCHANGED <<config_valid, replay, referral_system, call, day, idx, escorts, users, orders, repurchase_pool, new_orders,
                   available_escorts, waiting_queue, serving_orders,
                   completed_orders, failed_orders, daily_order_count,
                   geo_matcher, covered_hospitals>>

\* step 8, _reset_daily_state, and the loop of run
ResetDailyState ==
    /\ pc = "reset"
    /\ daily_order_count' = [e \in DOMAIN daily_order_count |-> 0]
    /\ IF day + 1 < TotalDays
       THEN day' = day + 1 /\ pc' = "supply"
       ELSE day' = day /\ pc' = "done"
    /\ UNCHANGED <<config_valid, replay, referral_system, call, idx, escorts, users, orders, repurchase_pool, demand_modifier,
                   new_orders, available_escorts, waiting_queue, serving_orders,
                   completed_orders, failed_orders, geo_matcher,
                   covered_hospitals, complaints, daily_orders_window,
                   complaint_rate, complaint_modifier>>

----------------------------------------------------------------------------
Next ==
    \/ UpdateSupply
    \/ GenerateDemand
    \/ FetchAvailable
    \/ BeginProcess
    \/ MatchOrder
    \/ MatchEnd
    \/ ServeOrder
    \/ ServeEnd
    \/ TimeoutOrders
    \/ HandleEvents
    \/ UpdateRepurchasePool
    \/ RecordDailyMetrics
    \/ ResetDailyState

Spec == Init /\ [][Next]_vars

\* Simulation(config).run() for any configuration: neither BaseSimulation.__init__
\* nor Simulation._init_modules calls config.validate(), so construction
\* succeeds and run() enters its loop whether or not validate() would accept
SpecAnyConfig == InitAnyConfig /\ [][Next]_vars

\* ---- one call of process_orders with a large roster ----

\* the state in which step 4 of day TrainingDays begins when the initial
\* cohort is of ManyEscorts escorts who all passed training that morning, and
\* the day's demand is one order of a new user
InitManyEscorts ==
    /\ config_valid = TRUE
    /\ NoReplay
    /\ referral_system = NewReferralSystem
    /\ call = NoCall
    /\ day = TrainingDays
    /\ pc = "process"
    /\ idx = 1
    /\ covered_hospitals \in HospitalConfigs
    /\ geo_matcher \in BOOLEAN
    /\ escorts = [e \in 1..ManyEscorts |->
                     [NewEscort(0, covered_hospitals) EXCEPT !.status = "available"]]
    /\ \E hospital \in covered_hospitals :
          users = <<NewUser(hospital, 0)>>
    /\ orders = <<NewOrder(1, TrainingDays)>>
    /\ repurchase_pool = <<>>
    /\ demand_modifier = ModifierOne
    /\ new_orders = <<1>>
    /\ available_escorts = [i \in 1..ManyEscorts |-> i]
    /\ waiting_queue = <<>>
    /\ serving_orders = <<>>
    /\ completed_orders = <<>>
    /\ failed_orders = <<>>
    /\ daily_order_count = [e \in 1..ManyEscorts |-> 0]
    /\ complaints = <<>>
    /\ daily_orders_window = [d \in 1..TrainingDays |-> 0]
    /\ complaint_rate = <<0, 1>>
    /\ complaint_modifier = ModifierOne

\* MatchingEngine.process_orders, from its first statement to its return
NextProcessOrders ==
    \/ BeginProcess
    \/ MatchOrder
    \/ MatchEnd
    \/ ServeOrder
    \/ ServeEnd
    \/ TimeoutOrders

SpecManyEscorts == InitManyEscorts /\ [][NextProcessOrders]_vars

\* ---- the first recruitment day ----

\* the state in which day RecruitPeriod begins after a first week without a
\* single order: every escort of the initial cohort has left training, passed
\* or failed, and may have been lost to attrition since
InitRecruitDay ==
    /\ config_valid = TRUE
    /\ NoReplay
    /\ referral_system = NewReferralSystem
    /\ call = NoCall
    /\ day = RecruitPeriod
    /\ pc = "supply"
    /\ idx = 1
    /\ covered_hospitals \in HospitalConfigs
    /\ \E setup \in EngineSetups :
          /\ geo_matcher = setup.geo
          /\ \E status \in [EscortIds -> {"available", "churned"}] :
                escorts = [e \in EscortIds |->
                              [NewEscort(EscortLoc(setup.layout, e), covered_hospitals)
                                  EXCEPT !.status = status[e]]]
    /\ users = <<>>
    /\ orders = <<>>
    /\ repurchase_pool = <<>>
    /\ demand_modifier = ModifierOne
    /\ new_orders = <<>>
    /\ available_escorts = <<>>
    /\ waiting_queue = <<>>
    /\ serving_orders = <<>>
    /\ completed_orders = <<>>
    /\ failed_orders = <<>>
    /\ daily_order_count = [e \in EscortIds |-> 0]
    /\ complaints = <<>>
    /\ daily_orders_window = [d \in 1..RecruitPeriod |-> 0]
    /\ complaint_rate = <<0, 1>>
    /\ complaint_modifier = ModifierOne

\* the eight steps of day RecruitPeriod, the last day of a run of
\* RecruitPeriod + 1 days
SpecRecruitDay == InitRecruitDay /\ [][Next]_vars

\* ---- the ledger with every complaint type ----

\* process_orders of day 0 has returned: the day's one order found the whole
\* cohort in training and timed out, and its complaint, of type t, is recorded
LedgerStart(t) ==
    /\ config_valid = TRUE
    /\ NoReplay
    /\ referral_system = NewReferralSystem
    /\ call = NoCall
    /\ day = 0
    /\ pc = "hook"
    /\ idx = 1
    /\ covered_hospitals \in HospitalConfigs
    /\ \E setup \in EngineSetups :
          /\ geo_matcher = setup.geo
          /\ escorts = [e \in EscortIds |->
                           NewEscort(EscortLoc(setup.layout, e), covered_hospitals)]
    /\ \E hospital \in covered_hospitals, loc \in UserLocs :
          users = <<NewUser(hospital, loc)>>
    /\ orders = << [NewOrder(1, 0) EXCEPT !.status = "failed",
                                          !.cancel_reason = "escorts_full"] >>
    /\ repurchase_pool = <<>>
    /\ demand_modifier = ModifierOne
    /\ new_orders = <<1>>
    /\ available_escorts = <<>>
    /\ waiting_queue = <<>>
    /\ serving_orders = <<>>
    /\ completed_orders = <<>>
    /\ failed_orders = <<1>>
    /\ daily_order_count = [e \in EscortIds |-> 0]
    /\ complaints = generate_complaint(<<>>, t, 1, 0)
    /\ daily_orders_window = <<>>
    /\ complaint_rate = <<0, 1>>
    /\ complaint_modifier = ModifierOne

\* _sample_complaint_type can draw any type for that complaint
InitLedger == \E t \in AllComplaintTypes : LedgerStart(t)

SpecLedger == InitLedger /\ [][Next]_vars

\* ---- the day on which the ledger's window is full ----

\* the state in which day ComplaintWindow begins when day 0 had one order,
\* which found the whole cohort in training, timed out and was complained
\* about, and the days since had no order: the ledger's window holds the
\* volumes of days 0 .. ComplaintWindow - 1 and every advance so far computed
\* the rate 1/1
InitWindowDay ==
    /\ config_valid = TRUE
    /\ NoReplay
    /\ referral_system = NewReferralSystem
    /\ call = NoCall
    /\ day = ComplaintWindow
    /\ pc = "supply"
    /\ idx = 1
    /\ covered_hospitals \in HospitalConfigs
    /\ \E setup \in EngineSetups :
          /\ geo_matcher = setup.geo
          /\ \E status \in [EscortIds -> {"available", "churned"}] :
                escorts = [e \in EscortIds |->
                              [NewEscort(EscortLoc(setup.layout, e), covered_hospitals)
                                  EXCEPT !.status = status[e]]]
    /\ \E hospital \in covered_hospitals, loc \in UserLocs :
          users = <<NewUser(hospital, loc)>>
    /\ orders = << [NewOrder(1, 0) EXCEPT !.status = "failed",
                                          !.cancel_reason = "escorts_full"] >>
    /\ repurchase_pool = <<>>
    /\ new_orders = <<>>
    /\ available_escorts = <<>>
    /\ waiting_queue = <<>>
    /\ serving_orders = <<>>
    /\ completed_orders = <<>>
    /\ failed_orders = <<1>>
    /\ daily_order_count = [e \in EscortIds |-> 0]
    /\ \E settled \in {"resolved", "escalated"} :
          complaints = << [complaint_type |-> "hospital_conflict",
                           status |-> settled, created_day |-> 0] >>
    /\ daily_orders_window = [d \in 1..ComplaintWindow |-> IF d = 1 THEN 1 ELSE 0]
    /\ complaint_rate = <<1, 1>>
    /\ complaint_modifier = ConversionModifier(1, 1)
    /\ demand_modifier = ConversionModifier(1, 1)

\* the eight steps of day ComplaintWindow, the last day of a run of
\* ComplaintWindow + 1 days
SpecWindowDay == InitWindowDay /\ [][Next]_vars

\* ---- two runs of one configuration and one seed, in two processes ----

\* the urban districts as positions on the line of Distance (10 km apart)
URBAN_DISTRICTS == {0, 1, 2}

\* list(self.urban_districts): URBAN_DISTRICTS is a set of str, and the order
\* in which a process lists it follows the string hashes of that process,
\* which python randomises per process; any order can come out
ListOrders ==
    {s \in [1..Cardinality(URBAN_DISTRICTS) -> URBAN_DISTRICTS] :
        \A i, j \in DOMAIN s : i # j => s[i] # s[j]}

\* what random.seed(config.random_seed) fixes, the same in every process: the
\* index random.choice draws, the location of the escort, the acceptance draw
\* and the service draw
SeededStreams ==
    [choice : 1..Cardinality(URBAN_DISTRICTS),
     escort_loc : URBAN_DISTRICTS,
     accepts : calculate_acceptance_willingness,
     success : BOOLEAN]

Runs == {1, 2}

\* GeoMatcher.assign_user_location: random.choice(list(self.urban_districts))
assign_user_location(listed, choice) == listed[choice]

InitTwoRuns ==
    /\ InitModules
    /\ config_valid = TRUE
    /\ hash_order \in [Runs -> ListOrders]
    /\ stream \in SeededStreams
    /\ runs = [r \in Runs |-> [step |-> "demand", loc |-> 0, total_completed |-> 0]]

\* step 2 of day 0 in run r: _create_user places the day's one user
RunDemand(r) ==
    /\ runs[r].step = "demand"
    /\ runs' = [runs EXCEPT
                   ![r].loc = assign_user_location(hash_order[r], stream.choice),
                   ![r].step = "match"]
    /\ UNCHANGED <<config_valid, hash_order, stream, referral_system, call, simulation>>

\* step 4 of day 0 in run r: the one trained escort is the only candidate;
\* the order completes when it is matched, accepted and served with success
RunProcessOrders(r) ==
    /\ runs[r].step = "match"
    /\ LET es    == [e \in {1} |->
                       [NewEscort(stream.escort_loc, {"community"})
                           EXCEPT !.status = "available"]]
           user  == NewUser("community", runs[r].loc)
           found == _normal_match(es, TRUE, user, <<1>>)
       IN runs' = [runs EXCEPT
                      ![r].total_completed =
                          IF found.escort # 0 /\ stream.accepts /\ stream.success
                          THEN 1 ELSE 0,
                      ![r].step = "done"]
    /\ UNCHANGED <<config_valid, hash_order, stream, referral_system, call, simulation>>

NextTwoRuns == \E r \in Runs : RunDemand(r) \/ RunProcessOrders(r)

SpecTwoRuns == InitTwoRuns /\ [][NextTwoRuns]_vars

\* step 5 with an event hook wired in (a subclass overriding
\* _handle_llm_events) that raises: _simulate_day and run have no try/except,
\* so the exception leaves the loop of run and the run ends there
HookRaises ==
    /\ pc = "hook"
    /\ pc' = "aborted"
    /\ UNCHANGED <<config_valid, replay, referral_system, call, day, idx, escorts, users, orders, repurchase_pool,
                   demand_modifier, new_orders, available_escorts, waiting_queue,
                   serving_orders, completed_orders, failed_orders,
                   daily_order_count, geo_matcher, covered_hospitals, complaints,
                   daily_orders_window, complaint_rate, complaint_modifier>>

\* the daily loop with an event hook that returns or raises
NextHook == Next \/ HookRaises

SpecHook == Init /\ [][NextHook]_vars

\* the run with the referral draws of _update_repurchase_pool left open
UpdateRepurchasePoolReferral == _update_repurchase_pool(MaxReferralRecords)

NextReferral ==
    \/ UpdateSupply
    \/ GenerateDemand
    \/ FetchAvailable
    \/ BeginProcess
    \/ MatchOrder
    \/ MatchEnd
    \/ ServeOrder
    \/ ServeEnd
    \/ TimeoutOrders
    \/ HandleEvents
    \/ UpdateRepurchasePoolReferral
    \/ RecordDailyMetrics
    \/ ResetDailyState

\* the state in which day TotalDays - 2 begins after days without a single
\* order: every escort has left training, passed or failed
ReferralStart ==
    /\ day = TotalDays - 2
    /\ pc = "supply"
    /\ idx = 1
    /\ covered_hospitals \in HospitalConfigs
    /\ \E setup \in EngineSetups :
          /\ geo_matcher = setup.geo
          /\ \E status \in [EscortIds -> {"available", "churned"}] :
                escorts = [e \in EscortIds |->
                              [NewEscort(EscortLoc(setup.layout, e), covered_hospitals)
                                  EXCEPT !.status = status[e]]]
    /\ users = <<>>
    /\ orders = <<>>
    /\ repurchase_pool = <<>>
    /\ demand_modifier = ModifierOne
    /\ new_orders = <<>>
    /\ available_escorts = <<>>
    /\ waiting_queue = <<>>
    /\ serving_orders = <<>>
    /\ completed_orders = <<>>
    /\ failed_orders = <<>>
    /\ daily_order_count = [e \in EscortIds |-> 0]
    /\ complaints = <<>>
    /\ daily_orders_window = [d \in 1..(TotalDays - 2) |-> 0]
    /\ complaint_rate = <<0, 1>>
    /\ complaint_modifier = ModifierOne

InitReferral ==
    /\ config_valid = TRUE
    /\ NoReplay
    /\ referral_system = NewReferralSystem
    /\ call = NoCall
    /\ ReferralStart

\* the last two days of the run, with the referral draws left open
SpecReferral == InitReferral /\ [][NextReferral]_vars

\* ---- find_nearest_escort on its own ----

\* positions of the candidates' and the user's homes on the line, 10 km apart,
\* and the radii asked for (the default 15 km, one below, one above)
GeoLocs == 0..3
GeoUserLocs == {0, 1}
Radii == {5, MaxDistanceKm, 25}

\* a roster of up to MaxCandidates escorts anywhere on the line, and one user
\* with one order
InitGeo ==
    /\ config_valid = TRUE
    /\ NoReplay
    /\ referral_system = NewReferralSystem
    /\ call = NoCall
    /\ day = 0
    /\ pc = "geo"
    /\ idx = 1
    /\ covered_hospitals \in HospitalConfigs
    /\ geo_matcher = TRUE
    /\ \E n \in 0..MaxCandidates :
          /\ \E loc \in [1..n -> GeoLocs] :
                escorts = [e \in 1..n |->
                              [NewEscort(loc[e], covered_hospitals) EXCEPT !.status = "available"]]
          /\ daily_order_count = [e \in 1..n |-> 0]
    /\ \E h \in covered_hospitals, userLoc \in GeoUserLocs :
          users = <<NewUser(h, userLoc)>>
    /\ orders = <<NewOrder(1, 0)>>
    /\ repurchase_pool = <<>>
    /\ demand_modifier = ModifierOne
    /\ new_orders = <<1>>
    /\ available_escorts = <<>>
    /\ waiting_queue = <<>>
    /\ serving_orders = <<>>
    /\ completed_orders = <<>>
    /\ failed_orders = <<>>
    /\ complaints = <<>>
    /\ daily_orders_window = <<>>
    /\ complaint_rate = <<0, 1>>
    /\ complaint_modifier = ModifierOne

\* one call of GeoMatcher.find_nearest_escort(order, candidates, max_distance_km)
FindNearest ==
    /\ pc = "geo"
    /\ \E S \in SUBSET DOMAIN escorts, max_distance_km \in Radii :
          LET candidates == SortedSeq(S)
          IN call' = [fn |-> "find_nearest_escort",
                      user_loc |-> users[orders[1].user].loc,
                      candidates |-> candidates,
                      max_distance_km |-> max_distance_km,
                      result |-> find_nearest_escort(escorts, users[orders[1].user].loc,
                                                     candidates, max_distance_km)]
    /\ pc' = "done"
    /\ UNCHANGED <<config_valid, replay, referral_system, day, idx, escorts, users, orders,
                   repurchase_pool, demand_modifier, new_orders, available_escorts,
                   waiting_queue, serving_orders, completed_orders, failed_orders,
                   daily_order_count, geo_matcher, covered_hospitals, complaints,
                   daily_orders_window, complaint_rate, complaint_modifier>>

SpecGeo == InitGeo /\ [][FindNearest]_vars

\* ---- classify_user_nps on its own ----

\* ratings on both sides of the two thresholds of classify_user_nps
NpsRatings == {1000, 3499, 3500, 4499, 4500, 5000}

\* one requester, before any request
InitNps ==
    /\ config_valid = TRUE
    /\ NoReplay
    /\ referral_system = NewReferralSystem
    /\ call = NoCall
    /\ day = 0
    /\ pc = "nps"
    /\ idx = 1
    /\ covered_hospitals \in HospitalConfigs
    /\ \E setup \in EngineSetups :
          /\ geo_matcher = setup.geo
          /\ escorts = [e \in EscortIds |->
                           NewEscort(EscortLoc(setup.layout, e), covered_hospitals)]
    /\ \E h \in covered_hospitals, userLoc \in UserLocs :
          users = <<NewUser(h, userLoc)>>
    /\ orders = <<>>
    /\ repurchase_pool = <<>>
    /\ demand_modifier = ModifierOne
    /\ new_orders = <<>>
    /\ available_escorts = <<>>
    /\ waiting_queue = <<>>
    /\ serving_orders = <<>>
    /\ completed_orders = <<>>
    /\ failed_orders = <<>>
    /\ daily_order_count = [e \in EscortIds |-> 0]
    /\ complaints = <<>>
    /\ daily_orders_window = <<>>
    /\ complaint_rate = <<0, 1>>
    /\ complaint_modifier = ModifierOne

\* the classifications returned so far
Classified == IF call.fn = "classify_user_nps" THEN call.results ELSE {}

\* one call of classify_user_nps(user_id, rating, is_child_purchase) for the
\* requester: the category is stored in user_nps and returned
Classify ==
    /\ pc = "nps"
    /\ \E rating \in NpsRatings, is_child_purchase \in BOOLEAN :
          LET category == classify_user_nps(rating, is_child_purchase)
          IN /\ referral_system' =
                    [referral_system EXCEPT !.user_nps = [u \in {1} |-> category]]
             /\ call' = [fn |-> "classify_user_nps",
                         results |-> Classified \cup
                                        {[rating |-> rating,
                                          is_child_purchase |-> is_child_purchase,
                                          category |-> category]}]
    /\ UNCHANGED <<config_valid, replay, simulation>>

SpecNps == InitNps /\ [][Classify]_vars

TypeOK ==
    /\ day \in 0..(TotalDays - 1)
    /\ pc \in {"supply", "demand", "fetch", "process", "match", "serve",
               "timeout", "hook", "pool", "metrics", "reset", "done", "aborted"}
    /\ \A e \in DOMAIN escorts :
          escorts[e].status \in {"training", "available", "serving", "churned"}

----------------------------------------------------------------------------
(* Claims *)

Terminal == {"completed", "failed"}

\* the states at a day boundary: all eight steps of a day have run
AtDayBoundary == pc \in {"supply", "done"}

\* the states from the start of a day to the end of its matching pass
BeforeOutcomes == pc \in {"supply", "demand", "fetch", "process", "match"}

\* the capacity table of the claim: rating >= 4.9 -> 4; >= 4.5 -> 3;
\* >= 4.3 -> 2; otherwise 1
RatingCapacity(rating) ==
    IF rating >= 4900 THEN 4
    ELSE IF rating >= 4500 THEN 3
    ELSE IF rating >= 4300 THEN 2
    ELSE 1

\* C1 as stated: in every reachable state each provider's daily accepted count
\* is at most the capacity derived from its current rating.
C1_CountWithinCurrentCapacity ==
    \A e \in DOMAIN escorts :
        daily_order_count[e] <= RatingCapacity(escorts[e].rating)

\* C1 amended: the daily accepted count is at most the capacity derived from
\* the provider's current rating in every state from the start of a day to
\* the end of its matching pass, before the day's service outcomes change
\* ratings.
C1_CountWithinCapacityWhileMatching ==
    BeforeOutcomes => C1_CountWithinCurrentCapacity

\* a provider whose rating has dropped has accepted as many requests as its
\* capacity allows
C1_Witness ==
    /\ pc = "match"
    /\ \E e \in DOMAIN escorts :
          /\ escorts[e].rating < InitialRating
          /\ daily_order_count[e] >= 1
          /\ daily_order_count[e] = RatingCapacity(escorts[e].rating)

\* the number of the engine's four books that hold order o
Books(o) ==
    (IF o \in Range(waiting_queue) THEN 1 ELSE 0)
    + (IF o \in Range(serving_orders) THEN 1 ELSE 0)
    + (IF o \in Range(completed_orders) THEN 1 ELSE 0)
    + (IF o \in Range(failed_orders) THEN 1 ELSE 0)

\* C2: after any number of days the pending, in-service, completed and failed
\* counts sum to the number of requests ever handed to process_orders, every
\* request being in exactly one of the four books.
C2_NoRequestDisappears ==
    AtDayBoundary =>
        /\ Len(waiting_queue) + Len(serving_orders) + Len(completed_orders)
             + Len(failed_orders) = Len(orders)
        /\ \A o \in DOMAIN orders : Books(o) = 1

StatusRank(status) ==
    CASE status = "pending" -> 0
      [] status = "matched" -> 1
      [] status = "serving" -> 2
      [] status \in Terminal -> 3

\* C3: a request's status only moves forward along pending, matched,
\* in-service, completed or failed; a completed or failed request never
\* changes status again and is never put back into the waiting queue or the
\* in-service list.
C3_StatusMonotone ==
    [][\A o \in DOMAIN orders :
          /\ StatusRank(orders'[o].status) >= StatusRank(orders[o].status)
          /\ orders[o].status \in Terminal =>
                /\ orders'[o].status = orders[o].status
                /\ o \notin Range(waiting_queue) => o \notin Range(waiting_queue')
                /\ o \notin Range(serving_orders) => o \notin Range(serving_orders')]_vars

\* a request that ended on an earlier day, while a later day is matching
C3_Witness ==
    /\ pc = "match"
    /\ idx > 1
    /\ \E o \in DOMAIN orders :
          /\ orders[o].status \in Terminal
          /\ orders[o].created_day < day

\* a step of the loop of _match_orders, handling the order waiting_queue[idx]
MatchStep == pc = "match" /\ idx <= Len(waiting_queue) /\ idx' = idx + 1

\* C4: when a pending request's requester has a designated provider who is in
\* the day's available list, below its daily capacity, rated >= 4.0, has not
\* rejected the request (this attempt's willingness draw included) and is
\* certified if the venue is restricted, the request is matched to that
\* provider with match type 'designated'.
C4_DesignatedAlwaysMatched ==
    [][MatchStep =>
         LET o == waiting_queue[idx]
             u == users[orders[o].user]
             d == u.designated_escort_id
         IN (/\ orders[o].status = "pending"
             /\ d # 0
             /\ d \in Range(available_escorts)
             /\ daily_order_count[d] < RatingCapacity(escorts[d].rating)
             /\ escorts[d].rating >= 4000
             /\ d \notin Range(orders'[o].rejected_escorts)
             /\ (u.target_hospital \in RESTRICTED_HOSPITALS
                    => escorts[d].has_certification))
            => /\ orders'[o].status = "serving"
               /\ orders'[o].escort = d
               /\ orders'[o].match_type = "designated"]_vars

AfterEngineDay0 == day = 0 /\ pc \in {"hook", "pool", "metrics", "reset"}

\* C6: if on day 0 no provider is available, every request generated on day 0
\* ends the day failed with the pool-exhausted reason; none is matched, served
\* or left pending.
C6_Day0AllFailedPoolExhausted ==
    (AfterEngineDay0 /\ get_available_escorts(escorts) = <<>>) =>
        /\ waiting_queue = <<>>
        /\ serving_orders = <<>>
        /\ \A o \in DOMAIN orders :
              /\ orders[o].status = "failed"
              /\ orders[o].cancel_reason = "escorts_full"
              /\ orders[o].escort = 0
              /\ o \in Range(failed_orders)

\* day 0 ends with a request and without an available provider
C6_Witness ==
    /\ day = 0
    /\ pc = "reset"
    /\ get_available_escorts(escorts) = <<>>
    /\ Len(orders) >= 1

\* C7: a requester's designated provider changes only in a step that completes
\* a service of that requester with rating >= 4.8, and then becomes the
\* provider of that service; a new requester starts without one.
C7_DesignationOnlyByHighRating ==
    [][/\ \A u \in DOMAIN users :
             users'[u].designated_escort_id # users[u].designated_escort_id =>
                 \E o \in DOMAIN orders :
                     /\ orders[o].user = u
                     /\ orders[o].status = "serving"
                     /\ orders'[o].status = "completed"
                     /\ orders'[o].is_success
                     /\ orders'[o].rating >= 4800
                     /\ users'[u].designated_escort_id = orders[o].escort
       /\ \A u \in DOMAIN users' \ DOMAIN users :
             users'[u].designated_escort_id = 0]_vars

\* a requester keeps its designated provider although that provider has
\* churned and a later service of the requester was rated lower or failed
C7_Witness ==
    \E u \in DOMAIN users :
        /\ users[u].designated_escort_id # 0
        /\ escorts[users[u].designated_escort_id].status = "churned"
        /\ \E o \in DOMAIN orders :
              /\ orders[o].user = u
              /\ orders[o].status \in Terminal
              /\ ~(orders[o].status = "completed" /\ orders[o].rating >= 4800)

\* the order of the same requester that precedes order o, 0 when o is the
\* requester's first order
PrevOrder(o) ==
    LET earlier == {q \in 1..(o - 1) : orders[q].user = orders[o].user}
    IN IF earlier = {} THEN 0
       ELSE CHOOSE q \in earlier : \A r \in earlier : r <= q

C9_NoChurnedInActivePools ==
    AtDayBoundary =>
        /\ \A u \in Range(repurchase_pool) : users[u].lifecycle_state # "churned"
        /\ \A e \in Range(get_available_escorts(escorts)) :
              escorts[e].status # "churned"

\* a day boundary with a churned requester and a churned provider
C9_Witness ==
    /\ AtDayBoundary
    /\ \E u \in DOMAIN users : users[u].lifecycle_state = "churned"
    /\ \E e \in DOMAIN escorts : escorts[e].status = "churned"

\* complaint rates num/den to compare the current rate with: 0, 0.5, .. 2.5,
\* past the rate at which the floor is reached
RateDomain == {<<n, 2>> : n \in 0..5}
RateLess(r1, r2) == r1[1] * r2[2] < r2[1] * r1[2]

\* C10: the conversion modifier is a non-increasing function of the complaint
\* rate: it is the function's value at the current rate, a lower rate never
\* gives a lower modifier and a higher rate never a higher one, at rate 0 it
\* is 1, and it never falls below the floor 0.5 (nor rises above 1).
C10_ModifierMonotone ==
    /\ complaint_modifier = ConversionModifier(complaint_rate[1], complaint_rate[2])
    /\ complaint_modifier >= 5000
    /\ complaint_modifier <= 10000
    /\ complaint_rate[1] = 0 => complaint_modifier = 10000
    /\ \A r \in RateDomain :
          /\ ConversionModifier(r[1], r[2]) >= 5000
          /\ r[1] = 0 => ConversionModifier(r[1], r[2]) = 10000
          /\ RateLess(r, complaint_rate) =>
                ConversionModifier(r[1], r[2]) >= complaint_modifier
          /\ RateLess(complaint_rate, r) =>
                ConversionModifier(r[1], r[2]) <= complaint_modifier

\* a day whose complaint rate is positive and whose modifier is below 1
C10_Witness ==
    /\ pc = "reset"
    /\ complaint_rate[1] > 0
    /\ complaint_modifier < 10000

\* the positions that can follow position p of _simulate_day: the eight steps
\* in their order, step 4 being process_orders with its two loops
StepAfter(p) ==
    CASE p = "supply"  -> {"demand"}
      [] p = "demand"  -> {"fetch"}
      [] p = "fetch"   -> {"process"}
      [] p = "process" -> {"match"}
      [] p = "match"   -> {"match", "serve"}
      [] p = "serve"   -> {"serve", "timeout"}
      [] p = "timeout" -> {"hook"}
      [] p = "hook"    -> {"pool"}
      [] p = "pool"    -> {"metrics"}
      [] p = "metrics" -> {"reset"}
      [] p = "reset"   -> {"supply", "done"}
      [] OTHER         -> {}

\* C11: every day runs the eight steps once each in the fixed order (supply,
\* demand, fetch, matching, hook, pool maintenance, metrics, reset); the
\* metrics step advances the complaint ledger and writes its modifier into
\* the demand generator; the reset step zeroes the daily counters; a new day
\* starts only from the reset step of the day before; and no step is left
\* out, whatever the day's requests and providers: the run goes on until the
\* last day's reset.
C11_EightStepsInOrder ==
    /\ [][/\ pc' \in StepAfter(pc)
          /\ (day' # day \/ pc' = "supply") =>
                (pc = "reset" /\ pc' = "supply" /\ day' = day + 1)
          /\ (pc = "match" /\ pc' = "serve") => idx > Len(waiting_queue)
          /\ (pc = "serve" /\ pc' = "timeout") => idx > Len(serving_orders)
          /\ pc = "metrics" =>
                /\ daily_orders_window' =
                       SlideWindow(daily_orders_window, Len(new_orders))
                /\ demand_modifier' = set_conversion_rate_modifier(complaint_modifier')
          /\ pc = "reset" =>
                \A e \in DOMAIN daily_order_count' : daily_order_count'[e] = 0]_vars
    /\ [](pc # "done" => ENABLED Next)

\* a whole run without a single request and without an available provider
C11_Witness ==
    /\ pc = "done"
    /\ day = TotalDays - 1
    /\ orders = <<>>
    /\ get_available_escorts(escorts) = <<>>

\* C12: if the event hook of step 5 raises, the orchestrator catches the
\* exception: whatever the hook does, the step that follows it is the pool
\* maintenance of the same day (and then metrics, reset and the later days).
C12_HookExceptionContained ==
    [][pc = "hook" => pc' = "pool"]_vars

\* C13: no step of any simulated day is executed under a configuration that
\* validate() rejects: with an invalid configuration the simulation stays
\* where construction left it
C13_NoDayUnderInvalidConfig ==
    config_valid \/ (day = 0 /\ pc = "supply")

\* the steps of MatchingEngine.process_orders and the steps the orchestrator
\* performs itself (fetch, the event hook, metrics, reset); steps 1, 2 and 6
\* are operations of the supply pool and the demand generator
EngineSteps == {"process", "match", "serve", "timeout"}
OrchestratorSteps == {"fetch", "hook", "metrics", "reset"}

\* the fields of a requester record that serving an order rewrites
ServedUserFrame(old, new) ==
    /\ new.target_hospital = old.target_hospital
    /\ new.loc = old.loc
    /\ new.is_repurchase = old.is_repurchase

\* the fields of a provider record that no engine step rewrites
EscortFrame(old, new) ==
    /\ new.loc = old.loc
    /\ new.has_certification = old.has_certification
    /\ new.specialized_hospitals = old.specialized_hospitals

C15_SameSeedSameOutputs ==
    (\A r \in Runs : runs[r].step = "done") =>
        runs[1].total_completed = runs[2].total_completed

\* day 1 begins (its supply step has not run yet, so the provider records are
\* those of day 0), no provider was available on day 0, and day 0 had a request
Day1AfterEmptyDay0 ==
    /\ day = 1
    /\ pc = "supply"
    /\ get_available_escorts(escorts) = <<>>
    /\ \E o \in DOMAIN orders : orders[o].created_day = 0

\* C16 as stated: in that scenario the ledger holds at least one complaint at
\* day 1, in every execution
C16_ComplaintCountNonZero ==
    Day1AfterEmptyDay0 => Len(complaints) >= 1

\* C16 amended: in that scenario the ledger holds at day 1 at most one
\* complaint per day-0 request (each failed request is offered once and is
\* recorded only when the ledger's 30% draw succeeds, so the count may be 0);
\* every recorded complaint was created on day 0 and has been taken in progress
\* by the ledger advance of day 0
C16_ComplaintCountAtMostRequests ==
    Day1AfterEmptyDay0 =>
        /\ Len(complaints) <= Cardinality({o \in DOMAIN orders : orders[o].created_day = 0})
        /\ \A o \in DOMAIN orders : orders[o].status = "failed" /\ orders[o].escort = 0
        /\ \A i \in DOMAIN complaints :
              /\ complaints[i].created_day = 0
              /\ complaints[i].status = "in_progress"

\* the scenario with a complaint recorded
C16_Witness ==
    /\ Day1AfterEmptyDay0
    /\ Len(complaints) >= 1

\* process_orders is not running: before step 4 of a day or after it
OutsideProcessOrders == pc \notin {"match", "serve", "timeout"}

\* the step of _process_timeout_orders fails every order left in the queue,
\* keeps or writes a reason, books it as failed and files complaints of today
C17_TimeoutStep ==
    pc = "timeout" =>
        /\ \A o \in Range(waiting_queue) :
              /\ orders[o].status = "pending"
              /\ orders'[o].status = "failed"
              /\ ~orders'[o].is_success
              /\ orders'[o].cancel_reason # "none"
              /\ orders'[o].escort = 0
              /\ o \in Range(failed_orders')
        /\ Len(complaints') <= Len(complaints) + Len(waiting_queue)
        /\ \A i \in DOMAIN complaints' :
              i > Len(complaints) =>
                  complaints'[i].created_day = day /\ complaints'[i].status = "pending"
        /\ waiting_queue' = <<>>
        /\ day' = day

\* C17: whenever process_orders is not running the waiting queue and the
\* in-service list are empty, and after it has returned no request is pending
\* or in service; the requests a matching pass works on are all of that day;
\* the timeout step fails every request left in the queue on that day and
\* offers each to the ledger (a complaint of that day can follow for each).
C17_QueuesEmptyAfterProcessOrders ==
    /\ [](OutsideProcessOrders => waiting_queue = <<>> /\ serving_orders = <<>>)
    /\ [](pc \in {"hook", "pool", "metrics", "reset", "done"} =>
             \A o \in DOMAIN orders : orders[o].status \in Terminal)
    /\ [](\A o \in Range(waiting_queue) \cup Range(serving_orders) :
             orders[o].created_day = day)
    /\ [](pc = "timeout" =>
             ENABLED (TimeoutOrders
                        /\ Len(complaints') = Len(complaints) + Len(waiting_queue)))
    /\ [][C17_TimeoutStep]_vars

\* process_orders of a later day has returned: a request of that day timed out
\* unmatched and its complaint was recorded that day
C17_Witness ==
    /\ pc = "hook"
    /\ day >= 1
    /\ \E o \in DOMAIN orders :
          /\ orders[o].created_day = day
          /\ orders[o].status = "failed"
          /\ orders[o].escort = 0
    /\ \E i \in DOMAIN complaints : complaints[i].created_day = day

\* C18: in every reachable state a request's match-attempt counter is at most
\* MAX_MATCH_ATTEMPTS, and a request whose counter has reached the limit is
\* not matched to any provider
C18_AttemptsWithinLimit ==
    \A o \in DOMAIN orders :
        /\ orders[o].match_attempts <= MAX_MATCH_ATTEMPTS
        /\ orders[o].match_attempts >= MAX_MATCH_ATTEMPTS => orders[o].escort = 0

\* C19: a provider onboarded on day j is not available (nor serving) on any
\* day earlier than j + training_days
C19_NotAvailableBeforeTrained ==
    \A e \in DOMAIN escorts :
        escorts[e].status \in {"available", "serving"} =>
            day >= escorts[e].join_day + TrainingDays

\* a state the main specification reaches is a start of the ledger run
LedgerStartReached == LedgerStart("hospital_conflict")

ComplaintRank(status) ==
    CASE status = "pending" -> 0
      [] status = "in_progress" -> 1
      [] status \in {"resolved", "escalated"} -> 2

\* the ledger advance (process_daily_complaints, in step 7) of day n has run
AdvancedThrough(n) == day > n \/ (day = n /\ pc \in {"reset", "done"})

\* a step of the ledger moves no complaint backwards, takes a pending one
\* only to in-progress, leaves a resolved or escalated one alone and changes
\* neither the day nor the type of a recorded complaint
C20_LedgerStep ==
    /\ Len(complaints') >= Len(complaints)
    /\ \A i \in DOMAIN complaints :
          /\ complaints'[i].created_day = complaints[i].created_day
          /\ complaints'[i].complaint_type = complaints[i].complaint_type
          /\ ComplaintRank(complaints'[i].status) >= ComplaintRank(complaints[i].status)
          /\ ComplaintRank(complaints'[i].status) <= ComplaintRank(complaints[i].status) + 1
          /\ ComplaintRank(complaints[i].status) = 2 =>
                complaints'[i].status = complaints[i].status
          /\ complaints'[i].status # complaints[i].status => pc = "metrics"

\* C20: a complaint filed on day d whose type has a window of w days is
\* pending or in progress in every state before the ledger advance of day
\* d + w has run and resolved or escalated in every state after it; it is
\* pending only until the advance of day d; statuses move only pending ->
\* in progress -> resolved | escalated and a resolved or escalated complaint
\* keeps its status.
C20_ComplaintLifecycle ==
    /\ [](\A i \in DOMAIN complaints :
             LET c == complaints[i]
                 due == c.created_day + RequiredDays(c.complaint_type)
             IN /\ RequiredDays(c.complaint_type) >= 1
                /\ IF AdvancedThrough(due)
                   THEN c.status \in {"resolved", "escalated"}
                   ELSE c.status \in {"pending", "in_progress"}
                /\ AdvancedThrough(c.created_day) => c.status # "pending")
    /\ [][C20_LedgerStep]_vars

\* a complaint with a two-day window, escalated by the advance of the second
\* day after it was filed, while a younger complaint is still in progress
C20_Witness ==
    /\ pc = "reset"
    /\ \E i \in DOMAIN complaints :
          /\ complaints[i].complaint_type = "service_quality"
          /\ complaints[i].status = "escalated"
          /\ day = complaints[i].created_day + 2
    /\ \E j \in DOMAIN complaints :
          /\ complaints[j].created_day = day
          /\ complaints[j].status = "in_progress"

\* C21: the modifier the demand generator holds while it generates the demand
\* of day d is the ledger's modifier as the ledger advance of day d-1 left it
\* (1.0 on day 0): the two are equal in every state, both lie in [0.5, 1], the
\* ledger's modifier is the one its recorded rate gives, and neither changes
\* in any step but the ledger advance of step 7.
C21_DemandUsesLedgerModifier ==
    /\ [](/\ demand_modifier = complaint_modifier
          /\ complaint_modifier \in ModifierFloor..ModifierOne
          /\ demand_modifier \in ModifierFloor..ModifierOne
          /\ complaint_modifier = ConversionModifier(complaint_rate[1], complaint_rate[2])
          /\ (day = 0 /\ pc \notin {"reset", "done"}) => demand_modifier = ModifierOne)
    /\ [][(complaint_modifier' # complaint_modifier \/ demand_modifier' # demand_modifier)
             => pc = "metrics"]_vars

\* the demand of a later day is generated under a modifier that complaints
\* have lowered
C21_Witness ==
    /\ pc = "demand"
    /\ day >= 1
    /\ demand_modifier < ModifierOne
    /\ demand_modifier = complaint_modifier

\* the days of the trailing window of ComplaintWindow days that ends today
TrailingDays == {d \in 0..day : day - d < ComplaintWindow}

\* C22: after a ledger advance that updated the rate (the window holds at
\* least one request), the rate is the number of complaints created in the
\* trailing 30 days over the number of requests generated in the same days
C22_RateOverSameWindow ==
    LET recent_complaints ==
            Cardinality({i \in DOMAIN complaints : complaints[i].created_day \in TrailingDays})
        recent_orders ==
            Cardinality({o \in DOMAIN orders : orders[o].created_day \in TrailingDays})
    IN (pc \in {"reset", "done"} /\ recent_orders > 0) =>
           complaint_rate = <<recent_complaints, recent_orders>>

\* the day of the most recent request (first service or repeat request) of
\* requester u; a pooled requester has at least one
LastRequestDay(u) ==
    LET days == {orders[o].created_day : o \in {x \in DOMAIN orders : orders[x].user = u}}
    IN CHOOSE d \in days : \A e \in days : e <= d

\* C23: once the demand step of a day has aged the pool, the idle-days counter
\* of every pooled requester is the number of days elapsed since that
\* requester's most recent service or repeat request
C23_IdleDaysCountElapsedDays ==
    pc \notin {"supply", "demand"} =>
        \A u \in Range(repurchase_pool) :
            users[u].days_since_last_order = day - LastRequestDay(u)

\* the converted referrals of the ledger whose conversion day has been reached
\* and whose demand has been generated
DueReferrals ==
    {i \in DOMAIN referral_system.referral_records :
        /\ referral_system.referral_records[i].converted
        /\ \/ referral_system.referral_records[i].conversion_day < day
           \/ /\ referral_system.referral_records[i].conversion_day = day
              /\ pc \notin {"supply", "demand"}}

\* C24 as stated: a converted referral recorded on day d is fed back into
\* demand: once a later day's demand has been generated (here: the demand of
\* the conversion day), the requests include one for the referred requester.
C24_ReferralFeedsDemand ==
    \A i \in DueReferrals :
        \E o \in DOMAIN orders :
            /\ user_id(orders[o].user) = referral_system.referral_records[i].referred_user_id
            /\ orders[o].created_day > referral_system.referral_records[i].referral_day

\* the start of the last two days is a state of the five-day run
ReferralStartReached == ReferralStart /\ referral_system = NewReferralSystem /\ call = NoCall

\* the candidates of the examined call within its radius, and a candidate's
\* distance from the user of the call
WithinRadius ==
    {e \in Range(call.candidates) :
        Distance(call.user_loc, escorts[e].loc) <= call.max_distance_km}
CallDistance(e) == Distance(call.user_loc, escorts[e].loc)

Favour(category) ==
    CASE category = "promoter" -> 2
      [] category = "passive" -> 1
      [] category = "detractor" -> 0

\* the category returned for a rating and a segment, once that call was made
Returned(rating, is_child_purchase) ==
    (CHOOSE c \in Classified :
        c.rating = rating /\ c.is_child_purchase = is_child_purchase).category

\* every rating has been classified for both segments
AllClassified ==
    \A rating \in NpsRatings, is_child_purchase \in BOOLEAN :
        \E c \in Classified :
            c.rating = rating /\ c.is_child_purchase = is_child_purchase

\* C26 as stated: once every rating has been classified for both segments,
\* some rating was classified more favourably for the proxy (child-purchaser)
\* requester than for the self-directed elderly requester, and no rating less
\* favourably.
C26_ProxySegmentSkewsFavourable ==
    AllClassified =>
        /\ \E rating \in NpsRatings :
              Favour(Returned(rating, TRUE)) > Favour(Returned(rating, FALSE))
        /\ \A rating \in NpsRatings :
              Favour(Returned(rating, TRUE)) >= Favour(Returned(rating, FALSE))

\* requester u has been marked churned and is out of the retained pool
ChurnedOut(u) ==
    users[u].lifecycle_state = "churned" /\ u \notin Range(repurchase_pool)

\* requester u has completed a request made on the current day
ServedToday(u) ==
    \E o \in DOMAIN orders :
        /\ orders[o].user = u
        /\ orders[o].created_day = day
        /\ orders[o].status = "completed"

\* C27 as stated: a requester that has been marked churned and removed from
\* the retained pool is not put back into the pool by any step, and no request
\* is made for it, unless it has completed a new service since.
C27_ChurnedStaysOut ==
    [][\A u \in DOMAIN users :
          (ChurnedOut(u) /\ ~ServedToday(u)) =>
              /\ u \notin Range(repurchase_pool')
              /\ \A o \in DOMAIN orders' \ DOMAIN orders : orders'[o].user # u]_vars

\* C28 as stated: each rated completed request is handled by the pool step
\* exactly once, on the day it completes: classify_user_nps and
\* simulate_referral are never invoked for it a second time, and
\* add_to_repurchase_pool is invoked for it on that day only.
C28_HandledOncePerOrder ==
    /\ [](\A o \in DOMAIN referral_system.handled : referral_system.handled[o] <= 1)
    /\ [][pc = "pool" =>
             \A o \in Range(Retained(orders, completed_orders)) :
                 orders[o].created_day = day]_vars

\* C29 as stated: at the moment a request is assigned to a provider, whatever
\* the match path, that provider's status is available: a provider already
\* serving another request is given no further request until that service
\* has ended.
C29_AssignedOnlyWhenAvailable ==
    [][\A o \in DOMAIN orders :
          (orders[o].status # "serving" /\ orders'[o].status = "serving") =>
              escorts[orders'[o].escort].status = "available"]_vars

\* the step puts order o in service
Assigned(o) == orders[o].status # "serving" /\ orders'[o].status = "serving"

\* C30: churned is absorbing.  A provider that is churned stays on the roster
\* and stays churned in every later state (it does not return to training,
\* available or serving), no step assigns it a request, the list handed to
\* the matching pass does not hold it, and no order in service is its own, so
\* no service outcome makes it available again.
C30_ChurnedIsAbsorbing ==
    /\ [][\A e \in DOMAIN escorts :
             escorts[e].status = "churned" =>
                 /\ e \in DOMAIN escorts'
                 /\ escorts'[e].status = "churned"
                 /\ \A o \in DOMAIN orders : Assigned(o) => orders'[o].escort # e]_vars
    /\ [](\A o \in Range(serving_orders) :
             escorts[orders[o].escort].status # "churned")
    /\ [](pc \in {"process", "match"} =>
             \A e \in Range(available_escorts) : escorts[e].status # "churned")

\* a provider that served and was then lost to attrition is still churned on
\* a day on which a request went unassigned
C30_Witness ==
    \E e \in DOMAIN escorts :
        /\ escorts[e].status = "churned"
        /\ escorts[e].total_orders > 0
        /\ \E o \in DOMAIN orders :
              /\ orders[o].status = "failed"
              /\ orders[o].escort = 0
              /\ orders[o].created_day = day

====
